---- MODULE Spec2Model ----
(***************************************************************************)
(* Model of the RepoMind spatial layout code:                              *)
(*   - the dependency graph view (components/DependencyGraph.tsx): graph   *)
(*     construction, the d3 force simulation it drives, the tick handler's *)
(*     bounding-box clamp and the drag handlers;                           *)
(*   - the diagram zoom hook useD3Zoom (components/ChatInterface.tsx): the *)
(*     initial auto-fit, resetZoom and the user's wheel/pan gestures.      *)
(* Numbers of the zoom hook are JavaScript doubles; they are modelled as   *)
(* exact rationals extended with +Infinity, -Infinity and NaN.             *)
(***************************************************************************)
EXTENDS Integers, Sequences, FiniteSets, TLC

(***************************************************************************)
(* Extended rational arithmetic (JavaScript number semantics without       *)
(* rounding): a value is finite n/d in lowest terms, or pinf, ninf, nan.   *)
(***************************************************************************)
Abs(i) == IF i < 0 THEN -i ELSE i

RECURSIVE GCD(_, _)
GCD(a, b) == IF b = 0 THEN a ELSE GCD(b, a % b)

Fin(n, d) ==
    LET s == IF d < 0 THEN -1 ELSE 1
        g == GCD(Abs(n), Abs(d))
    IN  [t |-> "fin", n |-> (s * n) \div g, d |-> (s * d) \div g]

Num(i) == [t |-> "fin", n |-> i, d |-> 1]
NaN == [t |-> "nan", n |-> 0, d |-> 1]
PInf == [t |-> "pinf", n |-> 0, d |-> 1]
NInf == [t |-> "ninf", n |-> 0, d |-> 1]

IsFinite(a) == a.t = "fin"
IsNaN(a) == a.t = "nan"

\* -1, 0 or 1 for a value that is not NaN
Sign(a) ==
    CASE a.t = "pinf" -> 1
      [] a.t = "ninf" -> -1
      [] OTHER -> IF a.n > 0 THEN 1 ELSE IF a.n < 0 THEN -1 ELSE 0

SignedInf(s) == IF s > 0 THEN PInf ELSE NInf

XNeg(a) ==
    CASE a.t = "nan" -> NaN
      [] a.t = "pinf" -> NInf
      [] a.t = "ninf" -> PInf
      [] OTHER -> Fin(-a.n, a.d)

XAdd(a, b) ==
    IF IsNaN(a) \/ IsNaN(b) THEN NaN
    ELSE IF IsFinite(a) /\ IsFinite(b) THEN Fin(a.n * b.d + b.n * a.d, a.d * b.d)
    ELSE IF IsFinite(a) THEN b
    ELSE IF IsFinite(b) THEN a
    ELSE IF a.t = b.t THEN a ELSE NaN

XSub(a, b) == XAdd(a, XNeg(b))

XMul(a, b) ==
    IF IsNaN(a) \/ IsNaN(b) THEN NaN
    ELSE IF IsFinite(a) /\ IsFinite(b) THEN Fin(a.n * b.n, a.d * b.d)
    ELSE IF Sign(a) = 0 \/ Sign(b) = 0 THEN NaN
    ELSE SignedInf(Sign(a) * Sign(b))

\* the divisors of the code are measurements, so a zero divisor is +0
XDiv(a, b) ==
    IF IsNaN(a) \/ IsNaN(b) THEN NaN
    ELSE IF IsFinite(b) /\ b.n = 0
         THEN IF Sign(a) = 0 THEN NaN ELSE SignedInf(Sign(a))
    ELSE IF IsFinite(a) /\ IsFinite(b) THEN Fin(a.n * b.d, a.d * b.n)
    ELSE IF IsFinite(a) THEN Num(0)
    ELSE IF IsFinite(b) THEN SignedInf(Sign(a) * Sign(b))
    ELSE NaN

\* a < b as JavaScript compares numbers (false when either is NaN)
XLess(a, b) ==
    IF IsNaN(a) \/ IsNaN(b) THEN FALSE
    ELSE IF a.t = "ninf" THEN b.t # "ninf"
    ELSE IF b.t = "pinf" THEN a.t # "pinf"
    ELSE IF a.t = "pinf" \/ b.t = "ninf" THEN FALSE
    ELSE a.n * b.d < b.n * a.d

XLeq(a, b) == XLess(a, b) \/ (~IsNaN(a) /\ a = b)

\* Math.min and Math.max: NaN if either argument is NaN
XMin(a, b) ==
    IF IsNaN(a) \/ IsNaN(b) THEN NaN ELSE IF XLess(b, a) THEN b ELSE a

XMax(a, b) ==
    IF IsNaN(a) \/ IsNaN(b) THEN NaN ELSE IF XLess(a, b) THEN b ELSE a

(***************************************************************************)
(* d3-zoom transforms as the hook uses them.                               *)
(***************************************************************************)
Transform(k, x, y) == [k |-> k, x |-> x, y |-> y]

zoomIdentity == Transform(Num(1), Num(0), Num(0))

\* transform.translate(x, y)
TransformTranslate(tr, x, y) ==
    IF x = Num(0) /\ y = Num(0) THEN tr
    ELSE Transform(tr.k, XAdd(tr.x, XMul(tr.k, x)), XAdd(tr.y, XMul(tr.k, y)))

\* transform.scale(k)
TransformScale(tr, k) ==
    IF k = Num(1) THEN tr ELSE Transform(XMul(tr.k, k), tr.x, tr.y)

TransformFinite(tr) == IsFinite(tr.k) /\ IsFinite(tr.x) /\ IsFinite(tr.y)

(***************************************************************************)
(* DependencyGraph: inputs.                                                *)
(***************************************************************************)
\* the datasets the analysis can hand to the component (nodes and links)
Node(id, category) == [id |-> id, category |-> category]
Link(source, target) == [source |-> source, target |-> target]

Datasets ==
    { [nodes |-> <<Node("a", "Core"), Node("b", "Library")>>,
       links |-> <<Link("a", "b"), Link("a", "zz"), Link("zz", "b")>>],
      [nodes |-> <<Node("a", "Core"), Node("a", "Tool")>>,
       links |-> <<Link("a", "a")>>],
      [nodes |-> <<Node("a", "Language")>>,
       links |-> <<Link("b", "b")>>],
      [nodes |-> <<>>,
       links |-> <<Link("a", "b")>>] }

\* analysis.dependencyGraph as AnalysisPanel receives it: a dataset, or
\* nothing at all
Graph(ds) == [given |-> TRUE, nodes |-> ds.nodes, links |-> ds.links]
NoGraph == [given |-> FALSE, nodes |-> <<>>, links |-> <<>>]
DependencyGraphs == {Graph(ds) : ds \in Datasets} \cup {NoGraph}

\* analysis.dependencyGraph || { nodes: [], edges: [] }
DependencyData(g) ==
    IF g.given THEN [nodes |-> g.nodes, links |-> g.links]
    ELSE [nodes |-> <<>>, links |-> <<>>]

\* variant: the placeholder is shown for a graph without edges
ShowsPlaceholder_NoEdges(dd) == ~(Len(dd.links) > 0)

\* dependencyData.nodes.length > 0 ? <DependencyGraph ... /> : placeholder
ShowsPlaceholder(dd) == ~(Len(dd.nodes) > 0)

\* widths getBoundingClientRect can report for the container
ContainerWidths == {10, 600}
\* where the pointer can take a dragged node (inside and outside the container)
DragPoints == { [x |-> 300, y |-> 200], [x |-> -50, y |-> 500] }
\* the displacement the forces give the nodes in one tick
Step == 700
Displacements == {Step, -Step}

\* the ticks of one simulation that are counted (sim.ticks saturates here);
\* SpecSim explores each simulation up to this many ticks
MaxTicks == 3

\* d3-force defaults, alpha in thousandths
Min(a, b) == IF a < b THEN a ELSE b
Max(a, b) == IF a > b THEN a ELSE b

AlphaScale == 1000
alphaMin == 1
alphaDecayNum == 228
alphaDecayDen == 10000
dragAlphaTarget == 300

(***************************************************************************)
(* DependencyGraph: building the simulation.                               *)
(***************************************************************************)
\* d3's initial (phyllotaxis) position of the node with index i - 1, rounded
InitialPosition(i) ==
    CASE i = 1 -> [x |-> 7, y |-> 0]
      [] i = 2 -> [x |-> -9, y |-> 8]
      [] OTHER -> [x |-> 1, y |-> -16]

\* variant: nodes with an id already seen are dropped
SimulationNodes_Dedup(nodes) ==
    LET keep == {i \in 1..Len(nodes) : \A j \in 1..(i - 1) : nodes[j].id # nodes[i].id}
        n == Cardinality(keep)
        pick(k) == CHOOSE i \in keep : Cardinality({j \in keep : j < i}) = k - 1
    IN  [k \in 1..n |->
            [id |-> nodes[pick(k)].id, category |-> nodes[pick(k)].category,
             x |-> InitialPosition(k).x, y |-> InitialPosition(k).y,
             vx |-> 0, vy |-> 0, fixed |-> FALSE, fx |-> 0, fy |-> 0]]

\* nodes.map(d => ({ ...d })), then forceSimulation's initialisation of
\* index, position and velocity
SimulationNodes(nodes) ==
    [i \in 1..Len(nodes) |->
        [id |-> nodes[i].id, category |-> nodes[i].category,
         x |-> InitialPosition(i).x, y |-> InitialPosition(i).y,
         vx |-> 0, vy |-> 0, fixed |-> FALSE, fx |-> 0, fy |-> 0]]

\* new Set(simulationNodes.map(n => n.id))
NodeIds(simNodes) == {simNodes[i].id : i \in 1..Len(simNodes)}

\* variant: only the source of a link is validated
KeepLink_SourceOnly(ids, l) == l.source \in ids

\* the filter's predicate: nodeIds.has(l.source) && nodeIds.has(l.target)
KeepLink(ids, l) == l.source \in ids /\ l.target \in ids

\* links.filter(...).map(d => ({ ...d }))
SimulationLinks(simNodes, links) ==
    SelectSeq(links, LAMBDA l : KeepLink(NodeIds(simNodes), l))

\* forceLink(...).id(d => d.id): a link end is resolved through a map from id
\* to node (the last node with an id wins); an id that is not in the map
\* makes d3 throw "node not found"
FindNode(simNodes, id) ==
    IF id \in NodeIds(simNodes)
    THEN CHOOSE i \in 1..Len(simNodes) :
            /\ simNodes[i].id = id
            /\ \A j \in (i + 1)..Len(simNodes) : simNodes[j].id # id
    ELSE 0

ResolveLinks(simNodes, simLinks) ==
    [k \in 1..Len(simLinks) |->
        [source |-> FindNode(simNodes, simLinks[k].source),
         target |-> FindNode(simNodes, simLinks[k].target),
         sourceId |-> simLinks[k].source, targetId |-> simLinks[k].target]]

NodeNotFound(resolved) ==
    \E k \in 1..Len(resolved) : resolved[k].source = 0 \/ resolved[k].target = 0

NoSim == [exists |-> FALSE, nodes |-> <<>>, links |-> <<>>, alpha |-> 0,
          alphaTarget |-> 0, running |-> FALSE, width |-> 0, height |-> 0,
          ticks |-> 0]

\* variant: the simulation is created cold
BuildSimulation_Cold(nodes, links, dims) ==
    LET simNodes == SimulationNodes(nodes)
        resolved == ResolveLinks(simNodes, SimulationLinks(simNodes, links))
    IN  IF Len(nodes) = 0 \/ NodeNotFound(resolved) THEN NoSim
        ELSE [exists |-> TRUE, nodes |-> simNodes, links |-> resolved,
              alpha |-> 0, alphaTarget |-> 0, running |-> FALSE,
              width |-> dims.width, height |-> dims.height, ticks |-> 0]

\* the body of the layout effect for props (nodes, links) and dimensions dims
BuildSimulation(nodes, links, dims) ==
    LET simNodes == SimulationNodes(nodes)
        resolved == ResolveLinks(simNodes, SimulationLinks(simNodes, links))
    IN  IF Len(nodes) = 0 \/ NodeNotFound(resolved) THEN NoSim
        ELSE [exists |-> TRUE, nodes |-> simNodes, links |-> resolved,
              alpha |-> AlphaScale, alphaTarget |-> 0, running |-> TRUE,
              width |-> dims.width, height |-> dims.height, ticks |-> 0]

\* the effect threw while building (d3's "node not found")
BuildThrows(nodes, links) ==
    LET simNodes == SimulationNodes(nodes)
    IN  /\ Len(nodes) # 0
        /\ NodeNotFound(ResolveLinks(simNodes, SimulationLinks(simNodes, links)))

(***************************************************************************)
(* DependencyGraph: the simulation step and the tick handler.              *)
(***************************************************************************)
\* d.x = Math.max(20, Math.min(width - 20, d.x))
ClampX(x, width) == Max(20, Min(width - 20, x))

\* d.y = Math.max(20, Math.min(height - 20, d.y))
ClampY(y, height) == Max(20, Min(height - 20, y))

\* variant: alpha is left as it is
NextAlpha_NoDecay(alpha, target) == alpha

\* alpha += (alphaTarget - alpha) * alphaDecay
NextAlpha(alpha, target) ==
    alpha + ((target - alpha) * alphaDecayNum) \div alphaDecayDen

\* variant: a pinned node is integrated like any other
MoveNode_IgnorePin(nd, d) ==
    [nd EXCEPT !.vx = d, !.vy = d, !.x = nd.x + d, !.y = nd.y + d]

\* d3's position update for one node, the forces having set its velocity to
\* (d, d): a pinned node is put at (fx, fy) with zero velocity
MoveNode(nd, d) ==
    IF nd.fixed
    THEN [nd EXCEPT !.x = nd.fx, !.y = nd.fy, !.vx = 0, !.vy = 0]
    ELSE [nd EXCEPT !.vx = d, !.vy = d, !.x = nd.x + d, !.y = nd.y + d]

\* the tick handler's bounding box constraint for one node
ClampNode(nd, width, height) ==
    [nd EXCEPT !.x = ClampX(nd.x, width), !.y = ClampY(nd.y, height)]

\* one step of the simulation timer: d3's tick, then the tick handler, then
\* the timer stops once alpha is below alphaMin.  The forces push the nodes
\* with odd index by d and those with even index by -d.
StepSimulation(sm, d) ==
    LET a == NextAlpha(sm.alpha, sm.alphaTarget)
        moved == [i \in 1..Len(sm.nodes) |->
                    ClampNode(MoveNode(sm.nodes[i], IF i % 2 = 1 THEN d ELSE -d),
                              sm.width, sm.height)]
    IN  [sm EXCEPT !.alpha = a, !.nodes = moved, !.running = ~(a < alphaMin),
                   !.ticks = Min(sm.ticks + 1, MaxTicks)]

(***************************************************************************)
(* State of the zoom hook (one diagram).                                    *)
(***************************************************************************)
VARIABLES
    parentRect,     \* svg getBoundingClientRect: [width, height]
    graphBox,       \* content group getBBox
    bboxThrows,     \* whether getBBox throws for the current content
    zoomT,          \* the svg element's current zoom transform (__zoom)
    attached,       \* selectionRef.current and zoomRef.current are set
    transition,     \* the running reset transition (its target and the
                    \* parentRect it was computed from), or NoTransition
    measuredRect,   \* the parentRect read by the fit or reset that last set zoomT
    lastOp,         \* what last set zoomT: "none", "fit", "reset", "wheel", "pan"
    userZoomed,     \* a wheel gesture happened since the last fit or reset
    gestures,       \* wheel/pan gestures since the last fit or reset
    prevRest        \* the reset completed immediately before the last
                    \* completed reset (no fit or gesture in between): the
                    \* transform it rested at and the parentRect it read

fitVars == <<parentRect, graphBox, bboxThrows, zoomT, attached, transition,
             measuredRect, lastOp, userZoomed, gestures, prevRest>>

\* the zoom hook takes no step
FitIdle == UNCHANGED fitVars

(***************************************************************************)
(* State of App, Dashboard and ChatInterface.                              *)
(***************************************************************************)
VARIABLES
    appState,       \* 'IDLE' | 'FETCHING_REPO' | 'ANALYZING' | 'READY' | 'ERROR'
    error,          \* the error text shown by RepoInput ("" for none)
    token,          \* the GitHub token of the last analysis
    repo,           \* Data State of App: a repository's data or null
    tree,
    analysis,
    readme,         \* a repository's README text or ""
    initialMessages,\* the chat history handed to the next Dashboard, or undefined
    savedSessions,  \* Saved Sessions State
    storage,        \* the localStorage item 'repomind_sessions'
    messages,       \* Lifted Chat State of the mounted Dashboard
    activeTab,      \* of the mounted Dashboard
    isTyping,       \* of the mounted ChatInterface
    chats,          \* the handleSend calls of the mounted Dashboard that
                    \* have not returned
    selectedFile,   \* of the mounted Dashboard: the file previewed, or null
    fileContent,    \* the text the preview shows
    isFileLoading,  \* the preview shows its loading state
    contentFrom,    \* the file whose handleFileClick call set fileContent
                    \* last after its fetch, or null
    fetches,        \* the handleFileClick calls of the mounted Dashboard
                    \* that await fetchFileContent
    runs,           \* the handleAnalyze calls that have not returned
    errorTimers,    \* the setTimeout(() => setAppState('IDLE'), 4000) pending
    now,            \* Date.now()
    lastCall,       \* the handler that ran last
    issued,         \* GitHub/Gemini requests started by the handler that ran last
    thrown,         \* the step of handleAnalyze whose exception the handler
                    \* that ran last caught: "none", "url", "details",
                    \* "commits", "tree" or "gemini"
    loadedSession,  \* the session given to the last handleLoadSession
    deletedId       \* the id given to the last handleDeleteSession

fileVars == <<selectedFile, fileContent, isFileLoading, contentFrom, fetches>>
dashVars == <<messages, activeTab, isTyping, chats, fileVars>>
appVars == <<appState, error, token, repo, tree, analysis, readme,
             initialMessages, savedSessions, storage, dashVars, runs,
             errorTimers, now, lastCall, issued, thrown, loadedSession,
             deletedId>>

\* App and its children take no step
AppIdle == UNCHANGED appVars

(***************************************************************************)
(* DependencyGraph: state and handlers.                                    *)
(***************************************************************************)
VARIABLES
    dependencyGraph,\* AnalysisPanel: analysis.dependencyGraph
    data,           \* AnalysisPanel: dependencyData, whose nodes and edges
                    \* are the props [nodes, links] of DependencyGraph
    placeholder,    \* AnalysisPanel shows "No dependency data available"
                    \* instead of a DependencyGraph
    dimensions,     \* the dimensions state: [width, height]
    sim,            \* the simulation the current effect run created, or NoSim
    buildError,     \* the last effect run threw while building
    drag,           \* the drag gesture in progress: its subject and whether
                    \* the subject belongs to a torn-down simulation
    stale,          \* the torn-down simulation a gesture still refers to:
                    \* its subject's pin and its alphaTarget
    written,        \* the kinds of the caller's objects ("nodes", "links")
                    \* that the layout has written a field of
    halted,         \* the simulations torn down by effect cleanups: how many
                    \* of them have a running timer, and whether the last
                    \* one had already stopped when it was torn down
    lastEvent       \* the last event handled by the component

simVars == <<dependencyGraph, data, placeholder, dimensions, sim, buildError,
            drag, stale, halted, written, lastEvent>>

\* the graph view takes no step
SimIdle == UNCHANGED simVars

NoDrag == [active |-> FALSE, node |-> 0, stale |-> FALSE]
NoStale == [exists |-> FALSE, fixed |-> FALSE, fx |-> 0, fy |-> 0, alphaTarget |-> 0]
NoHalted == [exists |-> FALSE, running |-> 0, idle |-> FALSE]

\* variant: the simulation is given the caller's node objects
NodeObjects_Props == "props"

\* simulationNodes = nodes.map(d => ({ ...d })): the node objects of the
\* simulation, of the selection's data and of the drag subjects are clones
NodeObjects == "clones"

\* simulationLinks = links.filter(...).map(d => ({ ...d }))
LinkObjects == "clones"

\* a write to a field of a node object (x, y, vx, vy, index, fx, fy)
NodeWrites == IF NodeObjects = "props" THEN {"nodes"} ELSE {}

\* forceSimulation initialises index, position and velocity of every node
\* object; forceLink replaces source and target of every link object
BuildWrites(sm) ==
    IF ~sm.exists THEN {}
    ELSE NodeWrites \cup
         (IF Len(sm.links) > 0 /\ LinkObjects = "props" THEN {"links"} ELSE {})

\* variant: stop also rewinds the simulation
StopSimulation_Rewind(sm) ==
    [sm EXCEPT !.running = FALSE, !.alpha = AlphaScale, !.ticks = 0]

\* simulation.stop(): the timer is stopped, nothing else changes
StopSimulation(sm) == [sm EXCEPT !.running = FALSE]

\* useState({ width: 600, height: 400 }) and the first run of the layout effect
SimInit ==
    /\ dependencyGraph \in DependencyGraphs
    /\ data = DependencyData(dependencyGraph)
    /\ placeholder = ShowsPlaceholder(data)
    /\ dimensions = [width |-> 600, height |-> 400]
    /\ sim = BuildSimulation(data.nodes, data.links, dimensions)
    /\ buildError = BuildThrows(data.nodes, data.links)
    /\ drag = NoDrag
    /\ stale = NoStale
    /\ halted = NoHalted
    /\ written = BuildWrites(sim)
    /\ lastEvent = "build"

\* variant: a simulation of as many nodes keeps its nodes and its alpha
Rerun_KeepPositions(ds, dims) ==
    /\ sim' = IF sim.exists /\ Len(ds.nodes) = Len(sim.nodes)
              THEN [sim EXCEPT !.width = dims.width, !.height = dims.height]
              ELSE BuildSimulation(ds.nodes, ds.links, dims)
    /\ buildError' = BuildThrows(ds.nodes, ds.links)
    /\ UNCHANGED <<stale, drag, halted, written>>
    /\ lastEvent' = "build"

\* cleanup of the previous effect run (simulation.stop()) followed by a new
\* run of the effect; a gesture in progress keeps its subject and simulation
Rerun(ds, dims) ==
    /\ halted' = IF sim.exists
                 THEN [exists |-> TRUE,
                       running |-> halted.running +
                                   (IF StopSimulation(sim).running THEN 1 ELSE 0),
                       idle |-> StopSimulation(sim) = sim]
                 ELSE halted
    /\ sim' = BuildSimulation(ds.nodes, ds.links, dims)
    /\ written' = written \cup BuildWrites(sim')
    /\ buildError' = BuildThrows(ds.nodes, ds.links)
    /\ IF drag.active /\ ~drag.stale
       THEN /\ stale' = [exists |-> TRUE,
                         fixed |-> sim.nodes[drag.node].fixed,
                         fx |-> sim.nodes[drag.node].fx,
                         fy |-> sim.nodes[drag.node].fy,
                         alphaTarget |-> sim.alphaTarget]
            /\ drag' = [drag EXCEPT !.stale = TRUE]
       ELSE UNCHANGED <<stale, drag>>
    /\ lastEvent' = "build"

\* updateDimensions: setDimensions({ width, height: 400 }) with a new object,
\* so the layout effect runs again
Resize(w) ==
    /\ dimensions' = [width |-> w, height |-> 400]
    /\ Rerun(data, dimensions')
    /\ UNCHANGED <<dependencyGraph, data, placeholder>>
    /\ FitIdle /\ AppIdle

\* AnalysisPanel is rendered with another analysis: dependencyData is
\* computed again; a DependencyGraph that stays mounted runs its effect
\* again, one that is mounted anew starts from useState's dimensions
SetData(g) ==
    /\ g # dependencyGraph
    /\ dependencyGraph' = g
    /\ data' = DependencyData(g)
    /\ placeholder' = ShowsPlaceholder(data')
    /\ dimensions' = IF placeholder \/ placeholder'
                     THEN [width |-> 600, height |-> 400] ELSE dimensions
    /\ Rerun(data', dimensions')
    /\ FitIdle /\ AppIdle

\* the simulation timer fires
Tick(d) ==
    /\ sim.exists /\ sim.running
    /\ sim' = StepSimulation(sim, d)
    /\ lastEvent' = "tick"
    /\ written' = written \cup NodeWrites
    /\ UNCHANGED <<dependencyGraph, data, placeholder, dimensions, halted,
                   buildError, drag, stale>>
    /\ FitIdle /\ AppIdle

\* dragstarted on node i (one pointer, so event.active is 0)
DragStart(i) ==
    /\ sim.exists /\ ~drag.active
    /\ i \in 1..Len(sim.nodes)
    /\ sim' = [sim EXCEPT !.alphaTarget = dragAlphaTarget, !.running = TRUE,
                          !.nodes[i].fixed = TRUE,
                          !.nodes[i].fx = sim.nodes[i].x,
                          !.nodes[i].fy = sim.nodes[i].y]
    /\ drag' = [active |-> TRUE, node |-> i, stale |-> FALSE]
    /\ lastEvent' = "dragstart"
    /\ written' = written \cup NodeWrites
    /\ UNCHANGED <<dependencyGraph, data, placeholder, dimensions, halted,
                   buildError, stale>>
    /\ FitIdle /\ AppIdle

\* dragged: the pointer takes the subject to p
Dragged(p) ==
    /\ drag.active
    /\ IF drag.stale
       THEN /\ stale' = [stale EXCEPT !.fixed = TRUE, !.fx = p.x, !.fy = p.y]
            /\ UNCHANGED sim
       ELSE /\ sim' = [sim EXCEPT !.nodes[drag.node].fixed = TRUE,
                                  !.nodes[drag.node].fx = p.x,
                                  !.nodes[drag.node].fy = p.y]
            /\ UNCHANGED stale
    /\ lastEvent' = "drag"
    /\ written' = written \cup NodeWrites
    /\ UNCHANGED <<dependencyGraph, data, placeholder, dimensions, halted,
                   buildError, drag>>
    /\ FitIdle /\ AppIdle

\* variant: the released node is put at its last pin
DragEnd_Snap ==
    /\ drag.active
    /\ IF drag.stale
       THEN /\ stale' = [stale EXCEPT !.alphaTarget = 0, !.fixed = FALSE,
                                      !.fx = 0, !.fy = 0]
            /\ UNCHANGED sim
       ELSE /\ sim' = [sim EXCEPT !.alphaTarget = 0,
                                  !.nodes[drag.node].x = sim.nodes[drag.node].fx,
                                  !.nodes[drag.node].y = sim.nodes[drag.node].fy,
                                  !.nodes[drag.node].fixed = FALSE,
                                  !.nodes[drag.node].fx = 0,
                                  !.nodes[drag.node].fy = 0]
            /\ UNCHANGED stale
    /\ drag' = NoDrag
    /\ lastEvent' = "dragend"
    /\ written' = written \cup NodeWrites
    /\ UNCHANGED <<dependencyGraph, data, placeholder, dimensions, halted,
                   buildError>>
    /\ FitIdle /\ AppIdle

\* dragended (event.active is 0): alphaTarget(0), pin cleared
DragEnd ==
    /\ drag.active
    /\ IF drag.stale
       THEN /\ stale' = [stale EXCEPT !.alphaTarget = 0, !.fixed = FALSE,
                                      !.fx = 0, !.fy = 0]
            /\ UNCHANGED sim
       ELSE /\ sim' = [sim EXCEPT !.alphaTarget = 0,
                                  !.nodes[drag.node].fixed = FALSE,
                                  !.nodes[drag.node].fx = 0,
                                  !.nodes[drag.node].fy = 0]
            /\ UNCHANGED stale
    /\ drag' = NoDrag
    /\ lastEvent' = "dragend"
    /\ written' = written \cup NodeWrites
    /\ UNCHANGED <<dependencyGraph, data, placeholder, dimensions, halted,
                   buildError>>
    /\ FitIdle /\ AppIdle

\* a tick among the first MaxTicks ticks of the simulation
EarlyTick(d) == sim.ticks < MaxTicks /\ Tick(d)

\* the graph view with every input; each simulation is followed for its
\* first MaxTicks ticks
SimNext ==
    \/ \E w \in ContainerWidths : Resize(w)
    \/ \E g \in DependencyGraphs : SetData(g)
    \/ \E d \in Displacements : EarlyTick(d)
    \/ \E i \in 1..2 : DragStart(i)
    \/ \E p \in DragPoints : Dragged(p)
    \/ DragEnd

\* the simulations of a one-node graph, each followed until its timer
\* stops, with drags of the node and resizes of the container
AlphaNext ==
    \/ \E d \in Displacements : Tick(d)
    \/ DragStart(1)
    \/ \E p \in DragPoints : Dragged(p)
    \/ DragEnd
    \/ \E w \in ContainerWidths : Resize(w)

(***************************************************************************)
(* useD3Zoom: measurements and the fit arithmetic.                         *)
(***************************************************************************)
\* largest number of wheel/pan gestures between two fits or resets
MaxGestures == 2

\* sizes getBoundingClientRect can report for the svg element
ParentRects ==
    { [width |-> 800, height |-> 400], [width |-> 800, height |-> 300],
      [width |-> 40, height |-> 300], [width |-> 30, height |-> 300] }
\* boxes getBBox can report for the content group
GraphBoxes ==
    { [x |-> 0, y |-> 0, width |-> 400, height |-> 400],
      [x |-> 10, y |-> 6, width |-> 1000, height |-> 400],
      [x |-> 10, y |-> 6, width |-> 100, height |-> 100],
      [x |-> 0, y |-> 0, width |-> 0, height |-> 400],
      [x |-> 10, y |-> 6, width |-> 400, height |-> 0],
      [x |-> 0, y |-> 0, width |-> 0, height |-> 0] }
\* pointer position, wheel factors (2^wheelDelta) and pan step of the gestures
PointerX == 100
PointerY == 60
WheelFactors == {Fin(1, 2), Num(4)}
PanStep == 50

padding == 40
scaleExtentMin == Fin(1, 10)
scaleExtentMax == Num(8)

\* variant: the padding taken off on both sides
FitScale_BothSides(pw, ph, box) ==
    XMin(XDiv(Num(pw - 2 * padding), Num(box.width)),
         XDiv(Num(ph - 2 * padding), Num(box.height)))

\* Math.min((parentWidth - padding) / graphBox.width,
\*          (parentHeight - padding) / graphBox.height)
FitScale(pw, ph, box) ==
    XMin(XDiv(Num(pw - padding), Num(box.width)),
         XDiv(Num(ph - padding), Num(box.height)))

\* const initialScale = Math.min(scale, 1)
InitialScale(scale) == XMin(scale, Num(1))

\* variant: the content box's own offset is ignored
CenterX_NoOffset(pw, box, s) ==
    XDiv(XSub(Num(pw), XMul(Num(box.width), s)), Num(2))

\* (parentWidth - graphBox.width * initialScale) / 2 - graphBox.x * initialScale
CenterX(pw, box, s) ==
    XSub(XDiv(XSub(Num(pw), XMul(Num(box.width), s)), Num(2)),
         XMul(Num(box.x), s))

CenterY(ph, box, s) ==
    XSub(XDiv(XSub(Num(ph), XMul(Num(box.height), s)), Num(2)),
         XMul(Num(box.y), s))

\* zoomIdentity.translate(x, y).scale(initialScale)
InitialTransform(pw, ph, box) ==
    LET s == InitialScale(FitScale(pw, ph, box))
    IN  TransformScale(
            TransformTranslate(zoomIdentity, CenterX(pw, box, s), CenterY(ph, box, s)),
            s)

\* step 6 of the effect: cur is the transform the svg element has when the
\* effect runs; a throwing getBBox falls back to the identity
InitialFit(cur, pw, ph, box, throws) ==
    IF throws THEN zoomIdentity
    ELSE IF box.width = 0 \/ box.height = 0 THEN cur
    ELSE InitialTransform(pw, ph, box)

\* resetZoom: Math.min((parentRect.width - 40) / graphBox.width, ...)
ResetFitScale(pw, ph, box) ==
    XMin(XDiv(Num(pw - 40), Num(box.width)),
         XDiv(Num(ph - 40), Num(box.height)))

\* variant: no cap at 100%
ResetScale_NoCap(scale) == scale

\* const initialScale = Math.min(scale, 1)
ResetScale(scale) == XMin(scale, Num(1))

ResetX(pw, box, s) ==
    XSub(XDiv(XSub(Num(pw), XMul(Num(box.width), s)), Num(2)),
         XMul(Num(box.x), s))

ResetY(ph, box, s) ==
    XSub(XDiv(XSub(Num(ph), XMul(Num(box.height), s)), Num(2)),
         XMul(Num(box.y), s))

\* the transform resetZoom starts a transition to
ResetTarget(pw, ph, box, throws) ==
    IF throws THEN zoomIdentity
    ELSE LET s == ResetScale(ResetFitScale(pw, ph, box))
         IN  TransformScale(
                 TransformTranslate(zoomIdentity, ResetX(pw, box, s), ResetY(ph, box, s)),
                 s)

\* d3-zoom's wheel step: scale clamped to scaleExtent, then translated so
\* that the content point under the pointer stays under the pointer
WheelScale(k, f) == XMax(scaleExtentMin, XMin(scaleExtentMax, XMul(k, f)))

WheelTransform(tr, f, px, py) ==
    LET k1 == WheelScale(tr.k, f)
        cx == XDiv(XSub(Num(px), tr.x), tr.k)
        cy == XDiv(XSub(Num(py), tr.y), tr.k)
    IN  Transform(k1, XSub(Num(px), XMul(cx, k1)), XSub(Num(py), XMul(cy, k1)))

PanTransform(tr, dx, dy) ==
    Transform(tr.k, XAdd(tr.x, Num(dx)), XAdd(tr.y, Num(dy)))

(***************************************************************************)
(* useD3Zoom: state.                                                       *)
(***************************************************************************)
NoMeasure == [width |-> -1, height |-> -1]
NoTransition == [target |-> zoomIdentity, rect |-> NoMeasure]
NoRest == [op |-> "none", t |-> zoomIdentity, rect |-> NoMeasure]

\* variant: the transition stops half way between start and target
TransitionRest_HalfWay(cur, target) ==
    Transform(XDiv(XAdd(cur.k, target.k), Num(2)),
              XDiv(XAdd(cur.x, target.x), Num(2)),
              XDiv(XAdd(cur.y, target.y), Num(2)))

\* .transition().duration(750).call(zoom.transform, target): at the end of
\* the transition the element's transform is the target itself, whatever
\* transform cur it started from
TransitionRest(cur, target) == target

FitInit ==
    /\ parentRect \in ParentRects
    /\ graphBox = [x |-> 0, y |-> 0, width |-> 0, height |-> 0]
    /\ bboxThrows = FALSE
    /\ zoomT = zoomIdentity
    /\ attached = FALSE
    /\ transition = NoTransition
    /\ measuredRect = NoMeasure
    /\ lastOp = "none"
    /\ userZoomed = FALSE
    /\ gestures = 0
    /\ prevRest = NoRest

\* mermaid delivered a new svg: React replaces the container's innerHTML, so
\* the svg element is new (identity zoom), and the effect of useD3Zoom runs
SetSvg(box, throws) ==
    /\ graphBox' = box
    /\ bboxThrows' = throws
    /\ attached' = TRUE
    /\ zoomT' = InitialFit(zoomIdentity, parentRect.width, parentRect.height, box, throws)
    /\ transition' = NoTransition
    /\ lastOp' = "fit"
    /\ userZoomed' = FALSE
    /\ gestures' = 0
    /\ measuredRect' = parentRect
    /\ prevRest' = NoRest
    /\ UNCHANGED parentRect
    /\ SimIdle /\ AppIdle

\* variant: the effect runs again on a resize
ResizeContainer_Refit(rect) ==
    /\ parentRect # rect
    /\ parentRect' = rect
    /\ zoomT' = InitialFit(zoomT, rect.width, rect.height, graphBox, bboxThrows)
    /\ UNCHANGED <<graphBox, bboxThrows, attached, transition,
                   measuredRect, lastOp, userZoomed, gestures, prevRest>>
    /\ SimIdle /\ AppIdle

\* the container is resized; the effect's dependencies are [svgContent,
\* containerRef], so nothing is recomputed
ResizeContainer(rect) ==
    /\ parentRect # rect
    /\ parentRect' = rect
    /\ UNCHANGED <<graphBox, bboxThrows, zoomT, attached, transition,
                   measuredRect, lastOp, userZoomed, gestures, prevRest>>
    /\ SimIdle /\ AppIdle

\* wheel gesture on the svg (interrupts a running transition)
Wheel(f, px, py) ==
    /\ attached
    /\ gestures < MaxGestures
    /\ zoomT' = WheelTransform(zoomT, f, px, py)
    /\ transition' = NoTransition
    /\ lastOp' = "wheel"
    /\ userZoomed' = TRUE
    /\ gestures' = gestures + 1
    /\ measuredRect' = NoMeasure
    /\ prevRest' = NoRest
    /\ UNCHANGED <<parentRect, graphBox, bboxThrows, attached>>
    /\ SimIdle /\ AppIdle

\* drag on empty space
Pan(dx, dy) ==
    /\ attached
    /\ gestures < MaxGestures
    /\ zoomT' = PanTransform(zoomT, dx, dy)
    /\ transition' = NoTransition
    /\ lastOp' = "pan"
    /\ gestures' = gestures + 1
    /\ measuredRect' = NoMeasure
    /\ prevRest' = NoRest
    /\ UNCHANGED <<parentRect, graphBox, bboxThrows, attached, userZoomed>>
    /\ SimIdle /\ AppIdle

\* resetZoom: measures and starts a 750ms transition to the target
ResetZoom ==
    /\ attached
    /\ transition' =
         [target |-> ResetTarget(parentRect.width, parentRect.height, graphBox, bboxThrows),
          rect |-> parentRect]
    /\ UNCHANGED <<parentRect, graphBox, bboxThrows, zoomT, attached, measuredRect,
                   lastOp, userZoomed, gestures, prevRest>>
    /\ SimIdle /\ AppIdle

\* the transition reaches its end: the element's transform is the target
TransitionEnd ==
    /\ transition # NoTransition
    /\ zoomT' = TransitionRest(zoomT, transition.target)
    /\ prevRest' = IF lastOp = "reset"
                   THEN [op |-> "reset", t |-> zoomT, rect |-> measuredRect]
                   ELSE NoRest
    /\ measuredRect' = transition.rect
    /\ transition' = NoTransition
    /\ lastOp' = "reset"
    /\ userZoomed' = FALSE
    /\ gestures' = 0
    /\ UNCHANGED <<parentRect, graphBox, bboxThrows, attached>>
    /\ SimIdle /\ AppIdle

FitNext ==
    \/ \E box \in GraphBoxes, throws \in BOOLEAN : SetSvg(box, throws)
    \/ \E rect \in ParentRects : ResizeContainer(rect)
    \/ \E f \in WheelFactors : Wheel(f, PointerX, PointerY)
    \/ Pan(PanStep, -PanStep)
    \/ ResetZoom
    \/ TransitionEnd

(***************************************************************************)
(* App: the data it handles.                                               *)
(***************************************************************************)
null == "null"
undefined == "undefined"

\* the repositories a URL can name; the details, the tree, the README and
\* the analysis of a repository are each written as the repository's name
Repos == {"r1", "r2"}
InvalidUrl == "not a url"
Urls == Repos \cup {InvalidUrl}
InputToken == "tok"

\* largest number of saved sessions, of messages in a chat, of handleAnalyze
\* and handleSend calls in flight, of pending error timers, and the last
\* instant of the clock
MaxSessions == 2
MaxMessages == 3
MaxRuns == 2
MaxChats == 2
MaxTimers == 1
MaxClock == 1

\* parseRepoUrl: owner and repo of a URL with at least two path segments
parseRepoUrl(url) == IF url \in Repos THEN url ELSE null

\* interface ChatMessage (mode is optional)
Message(role, content, mode) == [role |-> role, content |-> content, mode |-> mode]

\* the greeting a Dashboard starts with when it is given no history
InitMessage == Message("model", "init", undefined)
\* handleSend: userMsg, botMsg with the text streamed so far, the error message
UserMessage == Message("user", "question", "standard")
BotMessage(text) == Message("model", text, "standard")
ErrorMessage == Message("model", "**Error**", undefined)

\* an optional ChatMessage[] (initialMessages)
Undefined == [defined |-> FALSE, value |-> <<>>]
Defined(v) == [defined |-> TRUE, value |-> v]

\* variant: a Dashboard always starts with the greeting
DashboardMessages_Greeting(init) == <<InitMessage>>

\* useState<ChatMessage[]>(initialMessages || [ greeting ])
DashboardMessages(init) == IF init.defined THEN init.value ELSE <<InitMessage>>

\* interface SavedSession (timestamp is the id as a number)
Session(id, r, a, t, rd, history) ==
    [id |-> id, repo |-> r, analysis |-> a, tree |-> t, readme |-> rd,
     chatHistory |-> history]
NoSession == Session(-1, null, null, null, "", <<>>)

\* JSON.stringify leaves out a property whose value is undefined;
\* reading a property that JSON.parse did not create gives undefined
StringifyMessage(m) ==
    IF m.mode = undefined THEN [role |-> m.role, content |-> m.content] ELSE m
ParseMessage(j) ==
    IF "mode" \in DOMAIN j THEN j ELSE Message(j.role, j.content, undefined)

StringifySession(s) ==
    [s EXCEPT !.chatHistory =
        [i \in 1..Len(s.chatHistory) |-> StringifyMessage(s.chatHistory[i])]]
ParseSession(j) ==
    [j EXCEPT !.chatHistory =
        [i \in 1..Len(j.chatHistory) |-> ParseMessage(j.chatHistory[i])]]

JSONStringify(sessions) ==
    [i \in 1..Len(sessions) |-> StringifySession(sessions[i])]
JSONParse(text) == [i \in 1..Len(text) |-> ParseSession(text[i])]

\* localStorage.getItem('repomind_sessions'): null or the stored text
NoItem == [present |-> FALSE, text |-> <<>>]
Item(text) == [present |-> TRUE, text |-> text]

\* the mount effect: const stored = localStorage.getItem(...);
\* if (stored) setSavedSessions(JSON.parse(stored))
StoredSessions(item) == IF item.present THEN JSONParse(item.text) ELSE <<>>

\* a handleAnalyze call in flight: the await it is at, its repository, how
\* its commits request ended (commitsData is [] after "notok") and how its
\* README request ended (readmeContent is "" after "failed"); "none" before
\* the request has settled
NoRun == [stage |-> "none", rid |-> null, commits |-> "none", readme |-> "none"]
Run(stage, rid) ==
    [stage |-> stage, rid |-> rid, commits |-> "none", readme |-> "none"]

\* how fetchRepoCommits can end: the commits, [] for a response that is not
\* OK, or a rejection (fetch or response.json() throws)
CommitsOutcomes == {"ok", "notok", "reject"}
RunIds == 1..MaxRuns

\* a handleSend call in flight: the await it is at, the newMessages it
\* captured and whether the ChatInterface that started it is still mounted
NoChat == [stage |-> "none", base |-> <<>>, own |-> FALSE]
ChatIds == 1..MaxChats

\* the files of the tree that are clicked; the text of a file is written as
\* its name
Files == {"a.ts", "b.ts", "logo.png"}
IsImage(f) == f = "logo.png"
FileError == "Error loading file content. It might be too large or binary."

\* largest number of handleFileClick calls awaiting their fetch
MaxFetches == 3
FetchIds == 1..MaxFetches

\* what App renders
RepoInputShown(st) == st \in {"IDLE", "ERROR"}
DashboardShown(st, r, t, a) == st = "READY" /\ r # null /\ t # null /\ a # null

AppInit ==
    /\ appState = "IDLE"
    /\ error = ""
    /\ token = ""
    /\ repo = null /\ tree = null /\ analysis = null /\ readme = ""
    /\ initialMessages = Undefined
    /\ savedSessions = <<>>
    /\ storage = NoItem
    /\ messages = <<>>
    /\ activeTab = "analysis"
    /\ isTyping = FALSE
    /\ chats = [c \in ChatIds |-> NoChat]
    /\ selectedFile = null /\ fileContent = "" /\ isFileLoading = FALSE
    /\ contentFrom = null
    /\ fetches = [k \in FetchIds |-> null]
    /\ runs = [k \in RunIds |-> NoRun]
    /\ errorTimers = 0
    /\ now = 0
    /\ lastCall = "none"
    /\ issued = 0
    /\ thrown = "none"
    /\ loadedSession = NoSession
    /\ deletedId = -1

\* the handler name ran and started n requests
Called(name, n) ==
    /\ lastCall' = name
    /\ issued' = n
    /\ thrown' = "none"
    /\ loadedSession' = NoSession
    /\ deletedId' = -1

\* handleAnalyze ran into its catch block with the exception of step by
Caught(by) ==
    /\ lastCall' = "handleAnalyze"
    /\ issued' = 0
    /\ thrown' = by
    /\ loadedSession' = NoSession
    /\ deletedId' = -1

\* React renders App after a state change: a Dashboard that stays rendered
\* keeps its state, a Dashboard that appears starts from its props, and the
\* setState calls of a Dashboard that is gone have no effect
Rerender ==
    LET was == DashboardShown(appState, repo, tree, analysis)
        is == DashboardShown(appState', repo', tree', analysis')
    IN  IF was /\ is THEN UNCHANGED dashVars
        ELSE /\ messages' = IF is THEN DashboardMessages(initialMessages') ELSE <<>>
             /\ activeTab' = "analysis"
             /\ isTyping' = FALSE
             /\ chats' = [c \in ChatIds |-> NoChat]
             /\ selectedFile' = null /\ fileContent' = ""
             /\ isFileLoading' = FALSE /\ contentFrom' = null
             /\ fetches' = [k \in FetchIds |-> null]

(***************************************************************************)
(* App: handleAnalyze.                                                     *)
(***************************************************************************)
FreeRuns == {k \in RunIds : runs[k] = NoRun}

\* the catch block: setError, setAppState('ERROR'), setTimeout(..., 4000)
Failed(msg) ==
    /\ errorTimers < MaxTimers
    /\ error' = msg
    /\ appState' = "ERROR"
    /\ errorTimers' = errorTimers + 1

\* the message of the exception thrown by a step of handleAnalyze
ErrorOf(by) ==
    CASE by = "url" -> "Invalid GitHub URL"
      [] by = "details" -> "GitHub API Error"
      [] by = "commits" -> "Failed to fetch"
      [] by = "tree" -> "Failed to fetch file structure"
      [] OTHER -> "An unexpected error occurred"

\* handleAnalyze up to its first await (RepoInput's form is submitted)
Analyze(url) ==
    /\ RepoInputShown(appState)
    /\ FreeRuns # {}
    /\ token' = InputToken
    /\ initialMessages' = Undefined
    /\ IF parseRepoUrl(url) = null
       THEN /\ Failed(ErrorOf("url"))
            /\ UNCHANGED runs
            /\ Caught("url")
       ELSE /\ appState' = "FETCHING_REPO"
            /\ error' = ""
            /\ runs' = [runs EXCEPT ![CHOOSE k \in FreeRuns : \A j \in FreeRuns : k <= j]
                                        = Run("details", parseRepoUrl(url))]
            /\ UNCHANGED errorTimers
            /\ Called("handleAnalyze", 2)
    /\ UNCHANGED <<repo, tree, analysis, readme, savedSessions, storage, now>>
    /\ Rerender
    /\ FitIdle /\ SimIdle

\* variant: Promise.all is rejected by fetchRepoDetails only
Rejections_DetailsOnly(ok, commits) == IF ok THEN {} ELSE {"details"}

\* the promises of Promise.all([fetchRepoDetails, fetchRepoCommits]) that
\* are rejected
Rejections(ok, commits) ==
    (IF ok THEN {} ELSE {"details"}) \cup
    (IF commits = "reject" THEN {"commits"} ELSE {})

\* Promise.all([fetchRepoDetails, fetchRepoCommits]) settles: fulfilled if
\* both are, else rejected with the reason of a rejected one
DetailsFetched(k, ok, commits) ==
    /\ runs[k].stage = "details"
    /\ IF Rejections(ok, commits) = {}
       THEN /\ repo' = runs[k].rid
            /\ runs' = [runs EXCEPT ![k].stage = "tree",
                                    ![k].commits = commits]
            /\ UNCHANGED <<appState, error, errorTimers>>
            /\ Called("handleAnalyze", 1)
       ELSE /\ \E by \in Rejections(ok, commits) :
                    Failed(ErrorOf(by)) /\ Caught(by)
            /\ runs' = [runs EXCEPT ![k] = NoRun]
            /\ UNCHANGED repo
    /\ UNCHANGED <<token, tree, analysis, readme, initialMessages, savedSessions,
                   storage, now>>
    /\ Rerender
    /\ FitIdle /\ SimIdle

\* fetchRepoTree settles; hasReadme: the tree lists a readme.md
TreeFetched(k, ok, hasReadme) ==
    /\ runs[k].stage = "tree"
    /\ IF ~ok
       THEN /\ Failed(ErrorOf("tree"))
            /\ runs' = [runs EXCEPT ![k] = NoRun]
            /\ UNCHANGED <<tree, readme>>
            /\ Caught("tree")
       ELSE /\ tree' = runs[k].rid
            /\ IF hasReadme
               THEN /\ runs' = [runs EXCEPT ![k].stage = "readme"]
                    /\ UNCHANGED <<readme, appState>>
               ELSE /\ readme' = ""
                    /\ appState' = "ANALYZING"
                    /\ runs' = [runs EXCEPT ![k].stage = "gemini"]
            /\ UNCHANGED <<error, errorTimers>>
            /\ Called("handleAnalyze", 1)
    /\ UNCHANGED <<token, repo, analysis, initialMessages, savedSessions,
                   storage, now>>
    /\ Rerender
    /\ FitIdle /\ SimIdle

\* fetchFileContent of the README settles (a failure gives an empty README)
ReadmeFetched(k, ok) ==
    /\ runs[k].stage = "readme"
    /\ readme' = IF ok THEN runs[k].rid ELSE ""
    /\ appState' = "ANALYZING"
    /\ runs' = [runs EXCEPT ![k].stage = "gemini",
                            ![k].readme = IF ok THEN "ok" ELSE "failed"]
    /\ Called("handleAnalyze", 1)
    /\ UNCHANGED <<error, token, repo, tree, analysis, initialMessages,
                   savedSessions, storage, errorTimers, now>>
    /\ Rerender
    /\ FitIdle /\ SimIdle

\* analyzeRepoStructure settles
Analyzed(k, ok) ==
    /\ runs[k].stage = "gemini"
    /\ runs' = [runs EXCEPT ![k] = NoRun]
    /\ IF ok
       THEN /\ analysis' = runs[k].rid
            /\ appState' = "READY"
            /\ UNCHANGED <<error, errorTimers>>
            /\ Called("handleAnalyze", 0)
       ELSE /\ Failed(ErrorOf("gemini"))
            /\ UNCHANGED analysis
            /\ Caught("gemini")
    /\ UNCHANGED <<token, repo, tree, readme, initialMessages, savedSessions,
                   storage, now>>
    /\ Rerender
    /\ FitIdle /\ SimIdle

\* setTimeout(() => setAppState('IDLE'), 4000) fires
ErrorTimeout ==
    /\ errorTimers > 0
    /\ errorTimers' = errorTimers - 1
    /\ appState' = "IDLE"
    /\ Called("timeout", 0)
    /\ UNCHANGED <<error, token, repo, tree, analysis, readme, initialMessages,
                   savedSessions, storage, runs, now>>
    /\ Rerender
    /\ FitIdle /\ SimIdle

(***************************************************************************)
(* App: leaving the Dashboard and the saved sessions.                      *)
(***************************************************************************)
\* handleBack (the Dashboard's back button)
Back ==
    /\ DashboardShown(appState, repo, tree, analysis)
    /\ appState' = "IDLE"
    /\ repo' = null /\ tree' = null /\ analysis' = null /\ readme' = ""
    /\ token' = ""
    /\ initialMessages' = Undefined
    /\ Called("handleBack", 0)
    /\ UNCHANGED <<error, savedSessions, storage, runs, errorTimers, now>>
    /\ Rerender
    /\ FitIdle /\ SimIdle

\* what handleSaveSession did besides its state changes: the catch block
\* shows an alert
SaveCall(alerted) ==
    IF alerted THEN "handleSaveSession (alert)" ELSE "handleSaveSession"

\* variant: the list is set before the item is written
SaveSession_ListFirst(dt, stored) ==
    /\ DashboardShown(appState, repo, tree, analysis)
    /\ Len(savedSessions) < MaxSessions
    /\ now + dt <= MaxClock
    /\ now' = now + dt
    /\ IF repo = null \/ analysis = null \/ tree = null
       THEN /\ UNCHANGED <<savedSessions, storage>>
            /\ Called(SaveCall(FALSE), 0)
       ELSE LET newSession == Session(now', repo, analysis, tree, readme, messages)
                updatedSessions == <<newSession>> \o savedSessions
            IN  /\ savedSessions' = updatedSessions
                /\ storage' = IF stored THEN Item(JSONStringify(updatedSessions))
                               ELSE storage
                /\ Called(SaveCall(~stored), 0)
    /\ UNCHANGED <<appState, error, token, repo, tree, analysis, readme,
                   initialMessages, runs, errorTimers>>
    /\ Rerender
    /\ FitIdle /\ SimIdle

\* the Dashboard's handleSave, i.e. handleSaveSession(messages), dt after
\* the last reading of the clock; stored: localStorage.setItem did not throw
SaveSession(dt, stored) ==
    /\ DashboardShown(appState, repo, tree, analysis)
    /\ Len(savedSessions) < MaxSessions
    /\ now + dt <= MaxClock
    /\ now' = now + dt
    /\ IF repo = null \/ analysis = null \/ tree = null
       THEN /\ UNCHANGED <<savedSessions, storage>>
            /\ Called(SaveCall(FALSE), 0)
       ELSE LET newSession == Session(now', repo, analysis, tree, readme, messages)
                updatedSessions == <<newSession>> \o savedSessions
            IN  IF stored
                THEN /\ storage' = Item(JSONStringify(updatedSessions))
                     /\ savedSessions' = updatedSessions
                     /\ Called(SaveCall(FALSE), 0)
                ELSE /\ UNCHANGED <<savedSessions, storage>>
                     /\ Called(SaveCall(TRUE), 0)
    /\ UNCHANGED <<appState, error, token, repo, tree, analysis, readme,
                   initialMessages, runs, errorTimers>>
    /\ Rerender
    /\ FitIdle /\ SimIdle

\* handleLoadSession with the i-th session of RepoInput's list
LoadSession(i) ==
    /\ RepoInputShown(appState)
    /\ i \in 1..Len(savedSessions)
    /\ repo' = savedSessions[i].repo
    /\ analysis' = savedSessions[i].analysis
    /\ tree' = savedSessions[i].tree
    /\ readme' = savedSessions[i].readme
    /\ initialMessages' = Defined(savedSessions[i].chatHistory)
    /\ appState' = "READY"
    /\ lastCall' = "handleLoadSession"
    /\ issued' = 0
    /\ thrown' = "none"
    /\ loadedSession' = savedSessions[i]
    /\ deletedId' = -1
    /\ UNCHANGED <<error, token, savedSessions, storage, runs, errorTimers, now>>
    /\ Rerender
    /\ FitIdle /\ SimIdle

\* handleDeleteSession with the id of the i-th session of RepoInput's list
DeleteSession(i) ==
    /\ RepoInputShown(appState)
    /\ i \in 1..Len(savedSessions)
    /\ LET id == savedSessions[i].id
           updated == SelectSeq(savedSessions, LAMBDA s : s.id # id)
       IN  /\ savedSessions' = updated
           /\ storage' = Item(JSONStringify(updated))
           /\ deletedId' = id
    /\ lastCall' = "handleDeleteSession"
    /\ issued' = 0
    /\ thrown' = "none"
    /\ loadedSession' = NoSession
    /\ UNCHANGED <<appState, error, token, repo, tree, analysis, readme,
                   initialMessages, runs, errorTimers, now>>
    /\ Rerender
    /\ FitIdle /\ SimIdle

\* the page is loaded again: every useState starts over, the mount effect
\* reads the saved sessions from local storage
Reload ==
    /\ lastCall # "reload"
    /\ appState' = "IDLE"
    /\ error' = ""
    /\ token' = ""
    /\ repo' = null /\ tree' = null /\ analysis' = null /\ readme' = ""
    /\ initialMessages' = Undefined
    /\ savedSessions' = StoredSessions(storage)
    /\ runs' = [k \in RunIds |-> NoRun]
    /\ errorTimers' = 0
    /\ Called("reload", 0)
    /\ UNCHANGED <<storage, now>>
    /\ Rerender
    /\ FitIdle /\ SimIdle

(***************************************************************************)
(* Dashboard and ChatInterface: tabs and handleSend.                       *)
(***************************************************************************)
FreeChats == {c \in ChatIds : chats[c] = NoChat}

\* setActiveTab: the ChatInterface is rendered in the chat tab only, so a
\* change of tab ends the ChatInterface there was or starts a new one
SwitchTab(tab) ==
    /\ DashboardShown(appState, repo, tree, analysis)
    /\ tab # activeTab
    /\ activeTab' = tab
    /\ isTyping' = FALSE
    /\ chats' = [c \in ChatIds |->
                    IF chats[c] = NoChat THEN NoChat ELSE [chats[c] EXCEPT !.own = FALSE]]
    /\ Called("setActiveTab", 0)
    /\ UNCHANGED fileVars
    /\ UNCHANGED <<appState, error, token, repo, tree, analysis, readme,
                   initialMessages, savedSessions, storage, messages, runs,
                   errorTimers, now>>
    /\ FitIdle /\ SimIdle

\* handleSend up to its first await (a non-empty input is submitted)
Send ==
    /\ DashboardShown(appState, repo, tree, analysis)
    /\ activeTab = "chat"
    /\ ~isTyping
    /\ FreeChats # {}
    /\ messages' = Append(messages, UserMessage)
    /\ isTyping' = TRUE
    /\ chats' = [chats EXCEPT ![CHOOSE c \in FreeChats : \A j \in FreeChats : c <= j]
                                  = [stage |-> "request", base |-> messages', own |-> TRUE]]
    /\ Called("handleSend", 1)
    /\ UNCHANGED fileVars
    /\ UNCHANGED <<appState, error, token, repo, tree, analysis, readme,
                   initialMessages, savedSessions, storage, activeTab, runs,
                   errorTimers, now>>
    /\ FitIdle /\ SimIdle

\* a send whose question and reply fit into a chat of MaxMessages messages
SendWithReply == Len(messages) + 2 <= MaxMessages /\ Send

\* a send whose question fits into a chat of MaxMessages messages
SendQuestion == Len(messages) < MaxMessages /\ Send

\* finally { setIsTyping(false) } of a call whose ChatInterface may be gone
Returned(c) ==
    /\ isTyping' = IF chats[c].own THEN FALSE ELSE isTyping
    /\ chats' = [chats EXCEPT ![c] = NoChat]

\* chatWithRepo resolves: the empty bot message is shown
StreamOpened(c) ==
    /\ chats[c].stage = "request"
    /\ messages' = Append(chats[c].base, BotMessage(""))
    /\ chats' = [chats EXCEPT ![c].stage = "open"]
    /\ Called("handleSend", 0)
    /\ UNCHANGED fileVars
    /\ UNCHANGED <<appState, error, token, repo, tree, analysis, readme,
                   initialMessages, savedSessions, storage, activeTab, isTyping,
                   runs, errorTimers, now>>
    /\ FitIdle /\ SimIdle

\* a chunk arrives: the bot message shows the text streamed so far
StreamChunk(c) ==
    /\ chats[c].stage \in {"open", "text"}
    /\ messages' = Append(chats[c].base, BotMessage("text"))
    /\ chats' = [chats EXCEPT ![c].stage = "text"]
    /\ Called("handleSend", 0)
    /\ UNCHANGED fileVars
    /\ UNCHANGED <<appState, error, token, repo, tree, analysis, readme,
                   initialMessages, savedSessions, storage, activeTab, isTyping,
                   runs, errorTimers, now>>
    /\ FitIdle /\ SimIdle

\* the stream ends
StreamEnded(c) ==
    /\ chats[c].stage \in {"open", "text"}
    /\ Returned(c)
    /\ Called("handleSend", 0)
    /\ UNCHANGED fileVars
    /\ UNCHANGED <<appState, error, token, repo, tree, analysis, readme,
                   initialMessages, savedSessions, storage, messages, activeTab,
                   runs, errorTimers, now>>
    /\ FitIdle /\ SimIdle

\* chatWithRepo or the stream throws: the error message replaces the reply
StreamFailed(c) ==
    /\ chats[c].stage # "none"
    /\ messages' = Append(chats[c].base, ErrorMessage)
    /\ Returned(c)
    /\ Called("handleSend", 0)
    /\ UNCHANGED fileVars
    /\ UNCHANGED <<appState, error, token, repo, tree, analysis, readme,
                   initialMessages, savedSessions, storage, activeTab, runs,
                   errorTimers, now>>
    /\ FitIdle /\ SimIdle

\* App used for its saved sessions: analyses whose requests all succeed, of
\* repositories that have a README, and chats whose requests succeed
SessionNext ==
    \/ \E url \in Repos : Analyze(url)
    \/ \E k \in RunIds : DetailsFetched(k, TRUE, "ok")
    \/ \E k \in RunIds : TreeFetched(k, TRUE, TRUE)
    \/ \E k \in RunIds : ReadmeFetched(k, TRUE)
    \/ \E k \in RunIds : Analyzed(k, TRUE)
    \/ Back
    \/ \E dt \in 0..1, stored \in BOOLEAN : SaveSession(dt, stored)
    \/ \E i \in 1..MaxSessions : LoadSession(i)
    \/ \E i \in 1..MaxSessions : DeleteSession(i)
    \/ Reload
    \/ \E tab \in {"analysis", "chat"} : SwitchTab(tab)
    \/ SendWithReply
    \/ \E c \in ChatIds : StreamOpened(c)
    \/ \E c \in ChatIds : StreamChunk(c)
    \/ \E c \in ChatIds : StreamEnded(c)

(***************************************************************************)
(* Dashboard: the file preview.                                            *)
(***************************************************************************)
FreeFetches == {k \in FetchIds : fetches[k] = null}

\* handleFileClick up to its await; for an image nothing is fetched and the
\* call ends at once.  The file tree can be clicked while no preview is open
\* (FilePreviewModal covers the whole window).
FileClick(f) ==
    /\ DashboardShown(appState, repo, tree, analysis)
    /\ selectedFile = null
    /\ FreeFetches # {}
    /\ selectedFile' = f
    /\ fileContent' = ""
    /\ contentFrom' = null
    /\ IF IsImage(f)
       THEN /\ isFileLoading' = FALSE
            /\ UNCHANGED fetches
            /\ Called("handleFileClick", 0)
       ELSE /\ isFileLoading' = TRUE
            /\ fetches' = [fetches EXCEPT
                            ![CHOOSE k \in FreeFetches : \A j \in FreeFetches : k <= j] = f]
            /\ Called("handleFileClick", 1)
    /\ UNCHANGED <<appState, error, token, repo, tree, analysis, readme,
                   initialMessages, savedSessions, storage, messages, activeTab,
                   isTyping, chats, runs, errorTimers, now>>
    /\ FitIdle /\ SimIdle

\* fetchFileContent settles: the text or the error text is set, and the
\* loading state ends
FileFetched(k, ok) ==
    /\ fetches[k] # null
    /\ fileContent' = IF ok THEN fetches[k] ELSE FileError
    /\ contentFrom' = fetches[k]
    /\ isFileLoading' = FALSE
    /\ fetches' = [fetches EXCEPT ![k] = null]
    /\ Called("handleFileClick", 0)
    /\ UNCHANGED <<appState, error, token, repo, tree, analysis, readme,
                   initialMessages, savedSessions, storage, messages, activeTab,
                   isTyping, chats, selectedFile, runs, errorTimers, now>>
    /\ FitIdle /\ SimIdle

\* closeFilePreview
CloseFilePreview ==
    /\ DashboardShown(appState, repo, tree, analysis)
    /\ selectedFile # null
    /\ selectedFile' = null
    /\ fileContent' = ""
    /\ contentFrom' = null
    /\ Called("closeFilePreview", 0)
    /\ UNCHANGED <<appState, error, token, repo, tree, analysis, readme,
                   initialMessages, savedSessions, storage, messages, activeTab,
                   isTyping, chats, isFileLoading, fetches, runs, errorTimers, now>>
    /\ FitIdle /\ SimIdle

\* a Dashboard used for its file preview
PreviewNext ==
    \/ LoadSession(1)
    \/ Back
    \/ \E f \in Files : FileClick(f)
    \/ \E k \in FetchIds, ok \in BOOLEAN : FileFetched(k, ok)
    \/ CloseFilePreview

\* a Dashboard used for its chat: requests that succeed or fail, changes of
\* tab, and the loading of a session saved on an earlier visit
ChatNext ==
    \/ LoadSession(1)
    \/ Back
    \/ \E tab \in {"analysis", "chat"} : SwitchTab(tab)
    \/ SendQuestion
    \/ \E c \in ChatIds : StreamOpened(c)
    \/ \E c \in ChatIds : StreamChunk(c)
    \/ \E c \in ChatIds : StreamEnded(c)
    \/ \E c \in ChatIds : StreamFailed(c)

\* App used for its analyses: any URL, GitHub requests that succeed, an AI
\* analysis that succeeds or fails, the error timer, and the loading of a
\* session saved on an earlier visit
RunNext ==
    \/ \E url \in Urls : Analyze(url)
    \/ \E k \in RunIds : DetailsFetched(k, TRUE, "ok")
    \/ \E k \in RunIds, hasReadme \in BOOLEAN : TreeFetched(k, TRUE, hasReadme)
    \/ \E k \in RunIds : ReadmeFetched(k, TRUE)
    \/ \E k \in RunIds, ok \in BOOLEAN : Analyzed(k, ok)
    \/ ErrorTimeout
    \/ Back
    \/ \E i \in 1..MaxSessions : LoadSession(i)

vars == <<simVars, fitVars, appVars>>

\* the diagram zoom hook on its own (the graph view has no data)
InitFit == FitInit /\ SimInit /\ ~dependencyGraph.given /\ AppInit
SpecFit == InitFit /\ [][FitNext]_vars

\* the dependency graph view on its own (no diagram is shown)
InitSim ==
    FitInit /\ parentRect = [width |-> 800, height |-> 400] /\ SimInit /\ AppInit
SpecSim == InitSim /\ [][SimNext]_vars

\* the dependency graph view of a one-node graph, followed to the end
InitAlpha == InitSim /\ Len(data.nodes) = 1
SpecAlpha == InitAlpha /\ [][AlphaNext]_vars

\* App and its saved sessions (no diagram and no dependency graph is shown)
InitSession == InitFit /\ parentRect = [width |-> 800, height |-> 400]
SpecSession == InitSession /\ [][SessionNext]_vars

\* a session saved on an earlier visit
EarlierSession == Session(0, "r1", "r1", "r1", "r1", <<InitMessage>>)

\* App after its mount effect has read local storage, which holds one of items
InitVisit(items) ==
    /\ FitInit /\ parentRect = [width |-> 800, height |-> 400]
    /\ SimInit /\ ~dependencyGraph.given
    /\ storage \in items
    /\ savedSessions = StoredSessions(storage)
    /\ appState = "IDLE" /\ error = "" /\ token = ""
    /\ repo = null /\ tree = null /\ analysis = null /\ readme = ""
    /\ initialMessages = Undefined
    /\ messages = <<>> /\ activeTab = "analysis" /\ isTyping = FALSE
    /\ chats = [c \in ChatIds |-> NoChat]
    /\ selectedFile = null /\ fileContent = "" /\ isFileLoading = FALSE
    /\ contentFrom = null
    /\ fetches = [k \in FetchIds |-> null]
    /\ runs = [k \in RunIds |-> NoRun]
    /\ errorTimers = 0 /\ now = 0
    /\ lastCall = "none" /\ issued = 0 /\ thrown = "none"
    /\ loadedSession = NoSession /\ deletedId = -1

\* App and its analysis runs; local storage may hold a session saved on an
\* earlier visit
InitRun == InitVisit({NoItem, Item(JSONStringify(<<EarlierSession>>))})

SpecRun == InitRun /\ [][RunNext]_vars

\* the outcomes of an analysis run: every request of handleAnalyze for one
\* repository may end in each way it can, starting with nothing stored
OutcomeNext ==
    \/ \E url \in {"r1", InvalidUrl} : Analyze(url)
    \/ \E k \in RunIds, ok \in BOOLEAN, commits \in CommitsOutcomes :
            DetailsFetched(k, ok, commits)
    \/ \E k \in RunIds, ok \in BOOLEAN, hasReadme \in BOOLEAN :
            TreeFetched(k, ok, hasReadme)
    \/ \E k \in RunIds, ok \in BOOLEAN : ReadmeFetched(k, ok)
    \/ \E k \in RunIds, ok \in BOOLEAN : Analyzed(k, ok)
    \/ ErrorTimeout
    \/ Back

\* a first visit: nothing is stored
InitOutcome == InitVisit({NoItem})

SpecOutcome == InitOutcome /\ [][OutcomeNext]_vars

\* a later visit: the session of an earlier visit is stored
InitStored == InitVisit({Item(JSONStringify(<<EarlierSession>>))})

\* the Dashboard of a loaded session and its chat
SpecChat == InitStored /\ [][ChatNext]_vars

\* the Dashboard of a loaded session and its file preview
SpecPreview == InitStored /\ [][PreviewNext]_vars

(***************************************************************************)
(* Properties of the dependency graph view.                                *)
(***************************************************************************)
PropIds == {data.nodes[i].id : i \in 1..Len(data.nodes)}

\* how often the link from s to t occurs in a sequence of links
CountLinks(ls, s, t) ==
    Cardinality({k \in 1..Len(ls) : ls[k].source = s /\ ls[k].target = t})

CountResolved(ls, s, t) ==
    Cardinality({k \in 1..Len(ls) : ls[k].sourceId = s /\ ls[k].targetId = t})

LinkEnds == {"a", "b", "zz"}

\* C1: building never fails because of a dangling edge; the simulation links
\* are exactly the input edges whose source and target are both ids of input
\* nodes (each kept as often as it occurs), all others are excluded.
C1_DanglingEdgesExcluded ==
    /\ ~buildError
    /\ sim.exists =>
         \A s \in LinkEnds, t \in LinkEnds :
            CountResolved(sim.links, s, t) =
                IF s \in PropIds /\ t \in PropIds
                THEN CountLinks(data.links, s, t) ELSE 0

\* after a resize the graph was built from three edges of which two dangle
C1_Witness ==
    /\ sim.exists /\ dimensions.width = 10
    /\ Len(data.links) = 3 /\ Len(sim.links) = 1
    /\ sim.links[1].source = 1 /\ sim.links[1].target = 2

HasDuplicateIds ==
    \E i, j \in 1..Len(data.nodes) : i # j /\ data.nodes[i].id = data.nodes[j].id

\* C2 as stated: for a node list with a duplicated id the build fails with an
\* error and produces no simulation state.
C2_DuplicateIdsRejected ==
    HasDuplicateIds => (buildError /\ ~sim.exists)

\* C2 (amended): for a node list with a duplicated id the build succeeds, no
\* error is raised, and the simulation holds one node per input node, in
\* input order, duplicates included.
C2_DuplicateIdsAccepted ==
    HasDuplicateIds =>
        /\ ~buildError /\ sim.exists
        /\ Len(sim.nodes) = Len(data.nodes)
        /\ \A i \in 1..Len(data.nodes) : sim.nodes[i].id = data.nodes[i].id

\* a simulation built from duplicated ids has ticked
C2_Witness ==
    HasDuplicateIds /\ sim.exists /\ sim.ticks > 0 /\ Len(sim.nodes) = 2

\* C3: after every tick every node lies inside the container minus a margin
\* of 20 on each side (hence inside the container).
C3_WithinContainer ==
    (sim.exists /\ lastEvent = "tick") =>
        \A i \in 1..Len(sim.nodes) :
            /\ 20 <= sim.nodes[i].x /\ sim.nodes[i].x <= sim.width - 20
            /\ 20 <= sim.nodes[i].y /\ sim.nodes[i].y <= sim.height - 20

\* C4 as stated: alpha decays on every tick (so that the simulation stops
\* within a bounded number of ticks whatever the user does).
C4_AlphaDecaysEachTick ==
    [][lastEvent' = "tick" => sim'.alpha < sim.alpha]_vars

\* C4 (amended): on every tick taken while alphaTarget is 0 (no drag is held
\* on this simulation) alpha never grows, stays non-negative and strictly
\* decreases unless it is already below alphaMin, and the timer runs on
\* exactly while alpha is not below alphaMin, so the simulation stops within
\* a bounded number of such ticks; on a tick taken while a drag holds
\* alphaTarget at 0.3 the simulation keeps running.
C4_DecaysOnceReleased ==
    [][lastEvent' = "tick" =>
          /\ sim.alphaTarget = 0 =>
                /\ sim'.alpha <= sim.alpha /\ sim'.alpha >= 0
                /\ sim.alpha >= alphaMin => sim'.alpha < sim.alpha
                /\ sim'.running <=> (sim'.alpha >= alphaMin)
          /\ sim.alphaTarget = dragAlphaTarget => sim'.running]_vars

\* the timer has stopped below alphaMin after the node was dragged away
C4_Witness ==
    /\ sim.exists /\ ~sim.running /\ sim.alpha < alphaMin /\ sim.alphaTarget = 0
    /\ lastEvent = "tick" /\ sim.nodes[1].x = 20

AutoFitted == lastOp \in {"fit", "reset"}

\* ... and getBBox returned a box of positive width and height
NonDegenerateFit ==
    AutoFitted /\ ~bboxThrows /\ graphBox.width > 0 /\ graphBox.height > 0

\* the scale the specification's formula gives with a padding p on each side
PaddedScale(rect, box, p) ==
    XMin(Num(1), XMin(Fin(rect.width - 2 * p, box.width),
                      Fin(rect.height - 2 * p, box.height)))

ExampleFit ==
    /\ NonDegenerateFit
    /\ measuredRect = [width |-> 800, height |-> 400]
    /\ graphBox = [x |-> 0, y |-> 0, width |-> 400, height |-> 400]

\* C6 as stated: after a non-degenerate initial fit or reset the scale is
\* min((W - 2*40)/w, (H - 2*40)/h) capped at 1, and the 800x400 / 400x400
\* example yields scale 0.8, translateX 240, translateY 40.
C6_TwicePadding ==
    /\ NonDegenerateFit => zoomT.k = PaddedScale(measuredRect, graphBox, padding)
    /\ ExampleFit => zoomT = Transform(Fin(4, 5), Num(240), Num(40))

\* C6 (amended): after a non-degenerate initial fit or reset the scale is the
\* largest value that is at most 1 and keeps the scaled content within the
\* container minus 40 pixels in total (W - 40 and H - 40), i.e. it is
\* min((W - 40)/w, (H - 40)/h) capped at 1; the 800x400 / 400x400 example
\* yields scale 0.9, translateX 220, translateY 20.
C6_OncePadding ==
    /\ NonDegenerateFit =>
         LET sw == XMul(zoomT.k, Num(graphBox.width))
             sh == XMul(zoomT.k, Num(graphBox.height))
             aw == Num(measuredRect.width - 40)
             ah == Num(measuredRect.height - 40)
         IN  /\ XLeq(zoomT.k, Num(1)) /\ XLeq(sw, aw) /\ XLeq(sh, ah)
             /\ (zoomT.k = Num(1) \/ sw = aw \/ sh = ah)
    /\ ExampleFit => zoomT = Transform(Fin(9, 10), Num(220), Num(20))

\* the documented example has been fitted by the effect
C6_Witness == ExampleFit /\ lastOp = "fit" /\ zoomT.k = Fin(9, 10)

\* C7: no initial fit and no reset leaves a scale above 1.0, and a scale
\* above 1.0 is only seen after a user's wheel gesture.
C7_NoAutoZoomPastOne ==
    /\ AutoFitted => ~XLess(Num(1), zoomT.k)
    /\ XLess(Num(1), zoomT.k) => userZoomed

\* a reset of a 100x100 diagram in an 800 wide container (uncapped 7.6 or 2.6)
C7_Witness ==
    /\ lastOp = "reset" /\ ~bboxThrows
    /\ graphBox.width = 100 /\ measuredRect.width = 800
    /\ zoomT.k = Num(1)

\* C8: after every non-degenerate fit the centre of the content box is mapped
\* to the centre of the container:
\*   translateX + scale * (box.x + box.width/2) = containerWidth/2, same for Y.
C8_CentreMapsToCentre ==
    NonDegenerateFit =>
        /\ XAdd(zoomT.x, XMul(zoomT.k, Fin(2 * graphBox.x + graphBox.width, 2)))
             = Fin(measuredRect.width, 2)
        /\ XAdd(zoomT.y, XMul(zoomT.k, Fin(2 * graphBox.y + graphBox.height, 2)))
             = Fin(measuredRect.height, 2)

\* an initial fit of a box whose origin is not (0,0), scaled down
C8_Witness ==
    /\ NonDegenerateFit /\ lastOp = "fit"
    /\ graphBox.x = 10 /\ graphBox.width = 1000 /\ measuredRect.width = 800

\* C9: with a content box of width 0 or height 0 the initial fit and a reset
\* both leave the identity transform, and no fit or reset yields a NaN or
\* infinite scale or translate.
C9_DegenerateIsIdentity ==
    /\ (AutoFitted /\ ~bboxThrows /\ (graphBox.width = 0 \/ graphBox.height = 0))
         => zoomT = zoomIdentity
    /\ AutoFitted => TransformFinite(zoomT)

\* C10: the transform a completed reset rests at equals the transform a fresh
\* initial fit computes from the same measurements.
C10_ResetEqualsFreshFit ==
    lastOp = "reset" =>
        zoomT = InitialFit(zoomIdentity, measuredRect.width, measuredRect.height,
                           graphBox, bboxThrows)

C12_ScaleWithinBounds ==
    /\ XLess(Num(0), zoomT.k)
    /\ XLeq(scaleExtentMin, zoomT.k) /\ XLeq(zoomT.k, scaleExtentMax)

(***************************************************************************)
(* Properties of the saved sessions (checked under SpecSession).           *)
(***************************************************************************)
\* C13: saving a session and loading it later is a round trip.  A save puts
\* the displayed repo, analysis, tree, readme and chat into the list; every
\* step (other saves, deletes of other ids, a reload of the page) keeps
\* each listed session as it is; and handleLoadSession of a listed session
\* leaves the app in READY showing exactly that session's repo, analysis,
\* tree, readme and chat history, having started no GitHub or Gemini request.
C13_SaveLoadRoundTrip ==
    [][/\ \A i \in 1..Len(savedSessions) :
            \/ lastCall' = "handleDeleteSession" /\ savedSessions[i].id = deletedId'
            \/ \E j \in 1..Len(savedSessions') : savedSessions'[j] = savedSessions[i]
       /\ (lastCall' = "handleSaveSession" /\ savedSessions' # savedSessions) =>
            savedSessions'[1] = Session(now', repo, analysis, tree, readme, messages)
       /\ lastCall' = "handleLoadSession" =>
            /\ \E i \in 1..Len(savedSessions) : loadedSession' = savedSessions[i]
            /\ appState' = "READY"
            /\ repo' = loadedSession'.repo
            /\ analysis' = loadedSession'.analysis
            /\ tree' = loadedSession'.tree
            /\ readme' = loadedSession'.readme
            /\ messages' = loadedSession'.chatHistory
            /\ issued' = 0]_vars

\* the older of two saved sessions, with a three-message chat about r1, has
\* been loaded after another repository was analysed and saved
C13_Witness ==
    /\ lastCall = "handleLoadSession" /\ appState = "READY"
    /\ Len(savedSessions) = 2 /\ loadedSession = savedSessions[2]
    /\ savedSessions[1].repo = "r2" /\ repo = "r1" /\ analysis = "r1"
    /\ Len(messages) = 3 /\ messages = loadedSession.chatHistory

C15_DragEventsReheat ==
    [][lastEvent' \in {"dragstart", "drag", "dragend"} =>
          /\ sim'.exists /\ sim'.running
          /\ lastEvent' = "dragend" => sim'.alphaTarget = 0]_vars

\* C16: once the layout effect has been torn down during a drag, no drag
\* move and no drag end of that drag changes a pin or a position of a node
\* or anything of the torn-down simulation.
C16_NoMutationAfterTeardown ==
    [][(drag.active /\ drag.stale /\ lastEvent' \in {"drag", "dragend"}) =>
          (stale' = stale /\ sim' = sim)]_vars

\* a step that is a container resize of the graph view (the layout effect
\* runs again for the same analysis)
IsResize == lastEvent' = "build" /\ dependencyGraph' = dependencyGraph

\* C17 as stated: a container resize, also one that reports the same width,
\* leaves every node at the position it had and does not rebuild the
\* simulation from fresh seed positions.
C17_ResizeKeepsPositions ==
    [][(IsResize /\ sim.exists) =>
          /\ sim'.exists /\ sim'.alpha = sim.alpha
          /\ \A i \in 1..Len(sim.nodes) :
                /\ sim'.nodes[i].x = sim.nodes[i].x
                /\ sim'.nodes[i].y = sim.nodes[i].y]_vars

\* C17 (amended): a container resize, also one that reports the same width,
\* rebuilds the layout: the new simulation has the same nodes, each at its
\* seed position, unpinned and at rest, alpha is back at 1, the timer runs
\* and the new width is in force.
C17_ResizeRebuilds ==
    [][(IsResize /\ sim.exists) =>
          /\ sim'.exists /\ sim'.running /\ sim'.alpha = AlphaScale
          /\ sim'.alphaTarget = 0 /\ sim'.ticks = 0
          /\ sim'.width = dimensions'.width
          /\ Len(sim'.nodes) = Len(sim.nodes)
          /\ \A i \in 1..Len(sim.nodes) :
                /\ sim'.nodes[i].id = sim.nodes[i].id
                /\ sim'.nodes[i].x = InitialPosition(i).x
                /\ sim'.nodes[i].y = InitialPosition(i).y
                /\ ~sim'.nodes[i].fixed
                /\ sim'.nodes[i].vx = 0 /\ sim'.nodes[i].vy = 0]_vars

\* the container was resized to width 10 while node 1 was held at (-50, 500):
\* the node is back at its seed position and no longer pinned
C17_Witness ==
    /\ lastEvent = "build" /\ sim.exists /\ dimensions.width = 10
    /\ drag.active /\ drag.stale /\ drag.node = 1
    /\ stale.fixed /\ stale.fx = -50
    /\ sim.nodes[1].x = InitialPosition(1).x /\ ~sim.nodes[1].fixed

(***************************************************************************)
(* Further properties of the viewport fit (checked under SpecFit).         *)
(***************************************************************************)
\* a step in which a new svg was mounted, a gesture was made, or a reset
\* transition ended
IsMount == lastOp' = "fit" /\ measuredRect' = parentRect /\ gestures' = 0 /\ ~userZoomed'
IsGesture == lastOp' \in {"wheel", "pan"} /\ gestures' = gestures + 1
IsResetEnd == lastOp' = "reset" /\ transition # NoTransition /\ transition' = NoTransition

\* C18 as stated: the view transform is recomputed by the fit logic on mount
\* and on every container resize, and otherwise changes only through the
\* user's pan/zoom gestures and explicit resets.
C18_RefitOnMountAndResize ==
    [][/\ (attached /\ parentRect' # parentRect) =>
            zoomT' = InitialFit(zoomT, parentRect'.width, parentRect'.height,
                                graphBox, bboxThrows)
       /\ zoomT' # zoomT => (IsMount \/ IsGesture \/ IsResetEnd \/ parentRect' # parentRect)]_vars

\* C18 (amended): the view transform is computed by the fit logic when a
\* diagram is mounted; a container resize leaves it as it is; it changes
\* only when a diagram is mounted, through the user's pan/zoom gestures and
\* at the end of an explicit reset.
C18_RefitOnMountOnly ==
    [][/\ parentRect' # parentRect => zoomT' = zoomT
       /\ (attached' /\ graphBox' # graphBox) =>
            zoomT' = InitialFit(zoomIdentity, parentRect'.width, parentRect'.height,
                                graphBox', bboxThrows')
       /\ zoomT' # zoomT => (IsMount \/ IsGesture \/ IsResetEnd)]_vars

\* the 400x400 diagram was fitted in the 800x400 container (scale 0.9) and
\* the container is now 800x300, for which the fit gives scale 0.65
C18_Witness ==
    /\ lastOp = "fit" /\ ~bboxThrows
    /\ graphBox = [x |-> 0, y |-> 0, width |-> 400, height |-> 400]
    /\ measuredRect = [width |-> 800, height |-> 400]
    /\ parentRect = [width |-> 800, height |-> 300]
    /\ zoomT.k = Fin(9, 10)

\* a step in which the cleanup of the layout effect stops a simulation
IsTeardown == lastEvent' = "build" /\ sim.exists

RunningSimulations ==
    (IF sim.exists /\ sim.running THEN 1 ELSE 0) + halted.running

\* C20: every run of the layout effect (a new dataset or a resize) builds a
\* fresh simulation from the incoming dataset after the previous one has
\* been stopped: at most one simulation of the graph view is running in any
\* state, and none is running once the graph view is unmounted.
C20_OneSimulationPerView ==
    /\ [](RunningSimulations <= 1)
    /\ [](placeholder => (~sim.exists /\ RunningSimulations = 0))
    /\ [][lastEvent' = "build" =>
            /\ sim' = BuildSimulation(data'.nodes, data'.links, dimensions')
            /\ (sim'.exists =>
                  /\ sim'.alpha = AlphaScale /\ sim'.running /\ sim'.ticks = 0
                  /\ \A i \in 1..Len(sim'.nodes) : ~sim'.nodes[i].fixed)
            /\ (sim.exists => (halted'.exists /\ halted'.running = 0))]_vars

\* the graph view was unmounted while a node was being dragged and its
\* simulation was running, and a drag move arrived afterwards
C20_Witness ==
    /\ placeholder /\ ~sim.exists /\ halted.exists /\ ~halted.idle
    /\ drag.active /\ drag.stale /\ lastEvent = "drag"

\* a drag start pins the subject where it is and moves no node
DragStartPinsInPlace ==
    lastEvent' = "dragstart" =>
        /\ sim'.nodes[drag'.node].fixed
        /\ sim'.nodes[drag'.node].fx = sim.nodes[drag'.node].x
        /\ sim'.nodes[drag'.node].fy = sim.nodes[drag'.node].y
        /\ \A i \in 1..Len(sim.nodes) :
              /\ sim'.nodes[i].x = sim.nodes[i].x
              /\ sim'.nodes[i].y = sim.nodes[i].y

\* C21 as stated: a drag start pins the node at its current position without
\* moving it, and a drag end clears the pin and leaves the node at the last
\* pinned position.
C21_ReleasedAtLastPin ==
    [][/\ DragStartPinsInPlace
       /\ (lastEvent' = "dragend" /\ ~drag.stale) =>
             /\ ~sim'.nodes[drag.node].fixed
             /\ sim'.nodes[drag.node].x = sim.nodes[drag.node].fx
             /\ sim'.nodes[drag.node].y = sim.nodes[drag.node].fy]_vars

\* C21 (amended): a drag start pins the node at its current position without
\* moving it; a drag end clears the pin and moves no node: the released node
\* stays where the last tick left it, with the velocity it had, and the
\* simulation continues from there.  A tick puts a pinned node at its pin
\* clamped to the bounding box, so the released node is at the last pinned
\* position only if a tick ran after the last drag move and that position
\* lies inside the box.
C21_ReleasedWhereLastTicked ==
    [][/\ DragStartPinsInPlace
       /\ (lastEvent' = "dragend" /\ ~drag.stale) =>
             /\ ~sim'.nodes[drag.node].fixed
             /\ \A i \in 1..Len(sim.nodes) :
                   /\ sim'.nodes[i].x = sim.nodes[i].x
                   /\ sim'.nodes[i].y = sim.nodes[i].y
                   /\ sim'.nodes[i].vx = sim.nodes[i].vx
                   /\ sim'.nodes[i].vy = sim.nodes[i].vy
       /\ (lastEvent' = "tick" /\ sim.exists) =>
             \A i \in 1..Len(sim.nodes) :
                 sim.nodes[i].fixed =>
                     /\ sim'.nodes[i].x = ClampX(sim.nodes[i].fx, sim.width)
                     /\ sim'.nodes[i].y = ClampY(sim.nodes[i].fy, sim.height)]_vars

\* a node that was dragged outside the container and ticked there has been
\* released: it lies on the border of the bounding box, not at the pin
C21_Witness ==
    /\ lastEvent = "dragend" /\ ~drag.active /\ ~stale.exists
    /\ sim.exists /\ sim.ticks > 0 /\ sim.alphaTarget = 0
    /\ ~sim.nodes[1].fixed /\ sim.nodes[1].x = 20

\* the scale lies within the zoom behaviour's scaleExtent
WithinScaleExtent(k) == XLeq(scaleExtentMin, k) /\ XLeq(k, scaleExtentMax)

\* the content point that transform tr shows at the pointer
ContentPointAt(tr, px, py) ==
    [x |-> XDiv(XSub(Num(px), tr.x), tr.k), y |-> XDiv(XSub(Num(py), tr.y), tr.k)]

\* where transform tr shows content point c
ShownAt(tr, c) ==
    [x |-> XAdd(tr.x, XMul(tr.k, c.x)), y |-> XAdd(tr.y, XMul(tr.k, c.y))]

\* C22: a wheel step that takes the scale from a value within the scale
\* extent to a value within the scale extent leaves the content point that
\* was under the pointer under the pointer; a pan changes the translation
\* only, never the scale.
C22_ZoomToPoint ==
    [][/\ (IsGesture /\ lastOp' = "wheel" /\ WithinScaleExtent(zoomT.k)
            /\ WithinScaleExtent(zoomT'.k)) =>
             ShownAt(zoomT', ContentPointAt(zoomT, PointerX, PointerY))
                 = [x |-> Num(PointerX), y |-> Num(PointerY)]
       /\ (IsGesture /\ lastOp' = "pan") =>
             /\ zoomT'.k = zoomT.k
             /\ zoomT'.x = XAdd(zoomT.x, Num(PanStep))
             /\ zoomT'.y = XSub(zoomT.y, Num(PanStep))]_vars

C24_TimerOnlyResetsErrorScreen ==
    [][/\ (lastCall' = "timeout" => appState = "ERROR")
       /\ ((appState = "READY" /\ appState' # "READY") =>
               lastCall' = "handleBack")]_vars

\* the handleAnalyze calls that have not returned
RunsInFlight == {k \in RunIds : runs[k] # NoRun}

\* repo, tree, readme and analysis belong to one repository (the README may
\* be empty)
OneSource ==
    \E rid \in Repos :
        repo = rid /\ tree = rid /\ analysis = rid /\ readme \in {rid, ""}

\* C25: at most one analysis run is in flight at any time, and whenever the
\* Dashboard is shown, the repo, tree, readme and analysis it displays come
\* from one and the same analysis run or loaded session.
C25_OneRunOneSource ==
    /\ Cardinality(RunsInFlight) <= 1
    /\ DashboardShown(appState, repo, tree, analysis) => OneSource

(***************************************************************************)
(* Further properties of the saved sessions (checked under SpecSession).   *)
(***************************************************************************)
\* C26: the in-memory list of saved sessions always equals the list
\* persisted in local storage; a save prepends exactly one session and keeps
\* the others in order; a delete removes exactly the sessions with the
\* given id; a save that fails (the alert is shown) leaves list and storage
\* unchanged, as does every save attempted without repo, analysis or tree.
C26_ListEqualsStorage ==
    /\ [](/\ savedSessions = StoredSessions(storage)
          /\ (storage.present => storage.text = JSONStringify(savedSessions)))
    /\ [][/\ (lastCall' = SaveCall(FALSE) =>
                (IF repo = null \/ analysis = null \/ tree = null
                 THEN savedSessions' = savedSessions /\ storage' = storage
                 ELSE /\ Len(savedSessions') = Len(savedSessions) + 1
                      /\ Tail(savedSessions') = savedSessions
                      /\ Head(savedSessions').id = now'))
           /\ (lastCall' = SaveCall(TRUE) =>
                (savedSessions' = savedSessions /\ storage' = storage))
           /\ (lastCall' = "handleDeleteSession" =>
                /\ \E i \in 1..Len(savedSessions) : savedSessions[i].id = deletedId'
                /\ savedSessions' =
                      SelectSeq(savedSessions, LAMBDA x : x.id # deletedId'))]_vars

\* of two sessions saved at different instants, the newer one, with a chat
\* of three messages, is left after the older one was deleted
C26_Witness ==
    /\ lastCall = "handleDeleteSession" /\ Len(savedSessions) = 1
    /\ savedSessions[1].id > deletedId /\ deletedId >= 0
    /\ Len(savedSessions[1].chatHistory) = 3
    /\ storage = Item(JSONStringify(savedSessions))

(***************************************************************************)
(* Properties of the chat (checked under SpecChat).                        *)
(***************************************************************************)
\* the handleSend calls that have not returned
ChatsInFlight == {c \in ChatIds : chats[c] # NoChat}

\* C27: at most one chat request is in flight at any time (a send is ignored
\* while a reply is streaming, also after a change of tab and back), and
\* the typing flag is false once the stream has ended or failed.
C27_OneChatInFlight ==
    /\ Cardinality(ChatsInFlight) <= 1
    /\ ChatsInFlight = {} => ~isTyping

\* the last message shown is the reply of a request that is still streaming
LastIsStreamingReply ==
    \E c \in ChatIds :
        chats[c].stage \in {"open", "text"} /\ Len(messages) = Len(chats[c].base) + 1

\* C28: the chat history is append-only.  Every step of handleSend keeps
\* the messages shown, in their order (only the reply that is streaming is
\* replaced, by its longer text or by the error message); an accepted send
\* appends the user's message, and when its request has returned exactly one
\* model message follows it.
C28_AppendOnly ==
    [][lastCall' = "handleSend" =>
          /\ Len(messages') >= Len(messages)
          /\ \A i \in 1..Len(messages) :
                (i < Len(messages) \/ ~LastIsStreamingReply) =>
                    messages'[i] = messages[i]
          /\ Len(messages') <= Len(messages) + 1
          /\ Len(messages') = Len(messages) + 1 =>
                messages'[Len(messages')].role =
                    (IF issued' = 1 THEN "user" ELSE "model")]_vars

(***************************************************************************)
(* Properties of the file preview (checked under SpecPreview).             *)
(***************************************************************************)
\* C29: whenever the file preview is open and not in its loading state, the
\* content shown is the content fetched for the selected file or that
\* file's own error text (nothing for an image).
C29_PreviewShowsSelectedFile ==
    (selectedFile # null /\ ~isFileLoading) =>
        \/ IsImage(selectedFile) /\ fileContent = "" /\ contentFrom = null
        \/ /\ contentFrom = selectedFile
           /\ fileContent \in {selectedFile, FileError}

(***************************************************************************)
(* C30: what aborts an analysis run                                        *)
(***************************************************************************)
\* a step of handleAnalyze that ends in its catch block: the error screen is
\* shown and one more 4 s timer is pending
AbortStep ==
    /\ lastCall' = "handleAnalyze"
    /\ appState' = "ERROR"
    /\ errorTimers' = errorTimers + 1

\* a step that continues the handleAnalyze call k
RunStep(k) == runs[k] # NoRun /\ runs'[k] # runs[k]

\* C30 as stated: a run aborts into ERROR exactly when URL parsing, the
\* repository-details fetch, the tree fetch or the AI analysis fails; a
\* commits response that is not OK and a failed README fetch never keep the
\* run from going on, and an unparsable URL starts no request.
C30_AbortsOnFourFailures ==
    [][/\ (AbortStep <=> thrown' \in {"url", "details", "tree", "gemini"})
       /\ (thrown' = "url" => issued' = 0 /\ runs' = runs)]_vars

\* C30: a run aborts into ERROR exactly when URL parsing, the
\* repository-details fetch, the commits request itself (a rejected fetch or an
\* unreadable body), the tree fetch or the AI analysis fails, and the abort
\* shows the failure's message, ends the run and starts no request; no run
\* goes on after its commits request was rejected, while a run whose commits
\* response was not OK goes on to the tree and a run at its README request
\* always goes on to ANALYZING; a successful AI analysis ends in READY; an
\* unparsable URL starts no run and no request.
C30_AbortsOnFiveFailures ==
    /\ [](\A k \in RunIds : runs[k].commits # "reject")
    /\ [][/\ (AbortStep <=> thrown' # "none")
          /\ (AbortStep =>
                /\ thrown' \in {"url", "details", "commits", "tree", "gemini"}
                /\ error' = ErrorOf(thrown')
                /\ issued' = 0
                /\ \A k \in RunIds : RunStep(k) => runs'[k] = NoRun)
          /\ (thrown' = "url" => issued' = 0 /\ runs' = runs)
          /\ (\A k \in RunIds :
                /\ (RunStep(k) /\ runs[k].stage = "readme" =>
                      /\ ~AbortStep
                      /\ appState' = "ANALYZING"
                      /\ runs'[k].stage = "gemini"
                      /\ (runs'[k].readme = "failed" => readme' = ""))
                /\ (RunStep(k) /\ runs[k].stage = "details" /\ ~AbortStep =>
                      /\ runs'[k].stage = "tree"
                      /\ runs'[k].commits \in {"ok", "notok"})
                /\ (RunStep(k) /\ runs[k].stage = "gemini" /\ ~AbortStep =>
                      appState' = "READY" /\ analysis' = runs[k].rid))]_vars

\* a run is at the AI analysis although its commits response was not OK and
\* its README fetch failed
C30_Witness ==
    /\ \E k \in RunIds :
            /\ runs[k].stage = "gemini"
            /\ runs[k].commits = "notok"
            /\ runs[k].readme = "failed"
    /\ appState = "ANALYZING"
    /\ readme = ""

====
